---- MODULE Spec2Model ----
(***************************************************************************)
(* Model of src/main.py: the Twilio voice webhook of the EDGE booking      *)
(* assistant.  The state is the process-wide call_state dict, the two      *)
(* environment settings the handler reads, and a record of the last        *)
(* webhook turn (what the handler read from the form and what it           *)
(* produced).  One action handles one webhook request.  twilio_voice is an *)
(* `async def` whose only await is `await request.form()`; everything      *)
(* after it runs without suspension, so the body of the handler is one     *)
(* atomic step and overlapping requests are handled in some serial order.  *)
(*                                                                         *)
(* Python strings are sequences of characters.  None is a one-element      *)
(* sequence that is no string of the model; a form key that is missing     *)
(* holds Absent.                                                           *)
(***************************************************************************)
EXTENDS Naturals, Sequences, FiniteSets

\* ------------------------------------------------------------------ values

\* Longest SpeechResult text the telephony layer posts.
MaxLen == 2

None == <<"None">>
Absent == <<"Absent">>

Chars == {" ", "a"}

RECURSIVE SeqsUpTo(_)
SeqsUpTo(n) ==
    IF n = 0 THEN {<<>>}
    ELSE LET shorter == SeqsUpTo(n - 1)
         IN shorter \cup {Append(s, c) : s \in {t \in shorter : Len(t) = n - 1}, c \in Chars}

Strings == SeqsUpTo(MaxLen)

\* Python truthiness of None and of a string.
Truthy(v) == v # None /\ v # <<>>

\* Python `a or b`.
Or(a, b) == IF Truthy(a) THEN a ELSE b

\* str.strip(): leading and trailing whitespace removed.
RECURSIVE LStrip(_)
LStrip(s) == IF s # <<>> /\ Head(s) = " " THEN LStrip(Tail(s)) ELSE s

RECURSIVE RStrip(_)
RStrip(s) == IF s # <<>> /\ s[Len(s)] = " " THEN RStrip(SubSeq(s, 1, Len(s) - 1)) ELSE s

Strip(s) == RStrip(LStrip(s))

\* An f-string field: str(None) is "None".
Fmt(v) == IF v = None THEN <<"N", "o", "n", "e">> ELSE v

\* ------------------------------------------------------------------ inputs

FromNumbers == {<<"5">>}

\* The lower-case key is only a fallback of get_speech; short values suffice.
LowerVals == {s \in Strings : Len(s) <= 1}

\* The form fields the handler reads, for requests of the calls `sids`;
\* Absent where the key is not posted.
Forms(sids) ==
    [CallSid : sids \cup {<<>>, Absent},
     From : FromNumbers \cup {Absent},
     SpeechResult : Strings \cup {Absent},
     speechResult : LowerVals \cup {Absent}]

\* form.get(key)
Get(form, key) == IF form[key] = Absent THEN None ELSE form[key]

\* key in form
Has(form, key) == form[key] # Absent

get_speech(form) ==
    LET speech == Or(Or(Get(form, "SpeechResult"), Get(form, "speechResult")), <<>>)
    IN Strip(speech)

\* What twilio_voice reads from the form: CallSid, From, the extracted speech
\* and whether the SpeechResult key was posted.
Reading(form) ==
    [call_sid |-> Get(form, "CallSid"),
     from_number |-> Get(form, "From"),
     speech |-> get_speech(form),
     has_field |-> Has(form, "SpeechResult")]

\* The requests of one call in progress.
OneCall == {<<"1">>}
Readings == {Reading(f) : f \in Forms(OneCall)}

\* ------------------------------------------------------------------ store

NewSession == [step |-> 0, service |-> None, name |-> None, time_pref |-> None]

\* Mutant of get_or_create_call_state: the entry is set to the default dict
\* whether it exists or not.
get_or_create_call_state_Resets(cs, call_sid) ==
    [c \in DOMAIN cs \cup {call_sid} |-> IF c = call_sid THEN NewSession ELSE cs[c]]

\* call_state with the entry of call_sid created when missing.
get_or_create_call_state(cs, call_sid) ==
    IF call_sid \notin DOMAIN cs
    THEN [c \in DOMAIN cs \cup {call_sid} |-> IF c = call_sid THEN NewSession ELSE cs[c]]
    ELSE cs

\* call_state.pop(call_sid, None)
Pop(cs, call_sid) == [c \in DOMAIN cs \ {call_sid} |-> cs[c]]

\* Mutant of SetItem: every call shares one dict, a write shows in all entries.
SetItem_Shared(cs, call_sid, key, value) ==
    [c \in DOMAIN cs |-> [cs[c] EXCEPT ![key] = value]]

\* state[key] = value on the dict stored under call_sid.
SetItem(cs, call_sid, key, value) ==
    IF call_sid \in DOMAIN cs
    THEN [cs EXCEPT ![call_sid] = [@ EXCEPT ![key] = value]]
    ELSE cs

\* ------------------------------------------------------------------ lines

NO_CALLSID_LINE == <<"Grooming Company. This is Edge, the shop's digital assistant. Please call back from a valid number.">>
GREETING_LINE == <<"Grooming Company. This is Edge, the shop's digital assistant. What can I help you with today?">>
SORRY_LINE == <<"I'm sorry, I didn't catch that. Please call back when you're ready.">>
ASK_NAME_LINE == <<"Please tell me your first name.">>
ASK_TIME_LINE == <<"What day and time works best for your appointment?">>
FALLBACK_REPLY == <<"Got you. I can help with that.">>
WRONG_LINE == <<"I'm sorry, something went wrong. Please call back and we'll get you taken care of.">>

confirm_line(time_pref) ==
    <<"Perfect. I've noted that for ">> \o Fmt(time_pref)
        \o <<". I just sent a booking link to your phone so you can pick your exact time and complete payment. Thank you for calling Grooming Company. Goodbye.">>

sms_body(service, time_pref, booking_url) ==
    <<"Thanks for calling Grooming Company. We noted: ">> \o Fmt(service) \o <<" for ">>
        \o Fmt(time_pref) \o <<". Use this link to complete your booking: ">> \o Fmt(booking_url)

\* TwiML verbs of the response.
Say(text) == [verb |-> "Say", text |-> text]
Gather(text) == [verb |-> "Gather", text |-> text]
Hangup == [verb |-> "Hangup", text |-> <<>>]

\* ------------------------------------------------------------------ collaborators

\* What the OpenAI call does in one turn: it raises (or returns a malformed
\* result, which raises inside the try block too), or returns a text.
GenTexts == {<<" ", "g">>, <<" ">>}
GenOutcomes == {[raises |-> TRUE, text |-> <<>>]} \cup {[raises |-> FALSE, text |-> t] : t \in GenTexts}

\* What twilio_client.messages.create does in one turn.
SmsOutcomes == {[raises |-> TRUE], [raises |-> FALSE]}

\* Mutant of AiExceptCatches: the except clause misses the exception raised.
AiExceptMisses == FALSE

\* `except Exception` of ai_reply: the exceptions of the OpenAI call are caught.
AiExceptCatches == TRUE

\* ai_reply: [text: the line returned, escaped: an exception left the function,
\* log: what was printed]
ai_reply(gen) ==
    IF gen.raises
    THEN IF AiExceptCatches
         THEN [text |-> FALLBACK_REPLY, escaped |-> FALSE, log |-> <<"OpenAI error">>]
         ELSE [text |-> <<>>, escaped |-> TRUE, log |-> <<>>]
    ELSE [text |-> Strip(gen.text), escaped |-> FALSE, log |-> <<>>]

\* Mutant of SmsExceptCatches: the except clause misses the exception raised.
SmsExceptMisses == FALSE

\* `except Exception` around the SMS block: the exceptions of create are caught.
SmsExceptCatches == TRUE

\* Mutant of SmsConfigured: the booking URL is not tested.
SmsConfigured_IgnoresUrl(from_number, twilio_number, booking_url) ==
    Truthy(from_number) /\ Truthy(twilio_number)

\* The guard of the SMS block.
SmsConfigured(from_number, twilio_number, booking_url) ==
    Truthy(from_number) /\ Truthy(twilio_number) /\ Truthy(booking_url)

\* The try block of step 2: [msgs: the create calls made, each with whether it
\* went through; escaped: an exception left the block; log: what was printed]
send_booking(state, from_number, twilio_number, booking_url, sms) ==
    IF SmsConfigured(from_number, twilio_number, booking_url)
    THEN [msgs |-> <<[body |-> sms_body(state.service, state.time_pref, booking_url),
                      from_ |-> twilio_number,
                      to |-> from_number,
                      service |-> state.service,
                      time_pref |-> state.time_pref,
                      sent |-> ~sms.raises]>>,
          escaped |-> sms.raises /\ ~SmsExceptCatches,
          log |-> IF sms.raises /\ SmsExceptCatches THEN <<"SMS send error">> ELSE <<>>]
    ELSE [msgs |-> <<>>, escaped |-> FALSE, log |-> <<>>]

\* ------------------------------------------------------------------ handler

\* The outcome of one run of twilio_voice:
\*   call_state  the store when the handler returns (or is left by an exception)
\*   resp        the TwiML verbs returned, in order (empty when an exception escaped)
\*   state       the dict the local `state` refers to at the end, or <<>> when
\*               the handler never looked one up
\*   ai_calls    the number of calls of ai_reply
\*   msgs        the messages.create calls made
\*   raised      an exception left the handler
\*   log         the lines printed
\*   effects     the state changes and calls of the turn, in program order
Outcome(cs, resp, state, ai_calls, msgs, raised, log, effects) ==
    [call_state |-> cs, resp |-> resp, state |-> state, ai_calls |-> ai_calls,
     msgs |-> msgs, raised |-> raised, log |-> log, effects |-> effects]

\* Mutant of NoCallSidTurn: the state is looked up before the CallSid is tested.
NoCallSidTurn_LooksUp(cs) ==
    Outcome(get_or_create_call_state(cs, None), <<Say(NO_CALLSID_LINE), Hangup>>, <<>>, 0, <<>>,
            FALSE, <<>>, <<"say", "hangup">>)

\* No CallSid: a fixed line and hangup, no state looked up.
NoCallSidTurn(cs) ==
    Outcome(cs, <<Say(NO_CALLSID_LINE), Hangup>>, <<>>, 0, <<>>, FALSE, <<>>, <<"say", "hangup">>)

\* First hit: greet and listen.
GreetingTurn(cs, call_sid) ==
    Outcome(cs, <<Gather(GREETING_LINE), Say(SORRY_LINE)>>, <<cs[call_sid]>>, 0, <<>>, FALSE,
            <<>>, <<"gather", "say">>)

\* Mutant of PromptTurn: a failed generation is tried once more before the
\* canned line is used.
PromptTurn_Retries(cs, call_sid, speech, gen, slot, next_step, prompt) ==
    LET filled == SetItem(cs, call_sid, slot, Or(speech, cs[call_sid][slot]))
        reply == ai_reply(gen)
        advanced == SetItem(filled, call_sid, "step", next_step)
        tries == IF gen.raises THEN <<"generate", "generate">> ELSE <<"generate">>
    IN Outcome(advanced, <<Say(reply.text), Gather(prompt), Say(SORRY_LINE)>>,
               <<advanced[call_sid]>>, Len(tries), <<>>, FALSE, reply.log,
               <<"fill">> \o tries \o <<"say", "advance", "gather", "say">>)

\* One of the two slot-and-prompt steps (step 0: service, step 1: name).
PromptTurn(cs, call_sid, speech, gen, slot, next_step, prompt) ==
    LET filled == SetItem(cs, call_sid, slot, Or(speech, cs[call_sid][slot]))
        reply == ai_reply(gen)
        advanced == SetItem(filled, call_sid, "step", next_step)
    IN IF reply.escaped
       THEN Outcome(filled, <<>>, <<filled[call_sid]>>, 1, <<>>, TRUE, reply.log,
                    <<"fill", "generate">>)
       ELSE Outcome(advanced, <<Say(reply.text), Gather(prompt), Say(SORRY_LINE)>>,
                    <<advanced[call_sid]>>, 1, <<>>, FALSE, reply.log,
                    <<"fill", "generate", "say", "advance", "gather", "say">>)

\* Mutant of Step0Turn: the answer to the greeting is written to the name.
Step0Turn_FillsName(cs, call_sid, speech, gen) ==
    PromptTurn(cs, call_sid, speech, gen, "name", 1, ASK_NAME_LINE)

Step0Turn(cs, call_sid, speech, gen) ==
    PromptTurn(cs, call_sid, speech, gen, "service", 1, ASK_NAME_LINE)

\* Mutant of Step1Turn: the step is set past the last one the script handles.
Step1Turn_StepsPast(cs, call_sid, speech, gen) ==
    PromptTurn(cs, call_sid, speech, gen, "name", 3, ASK_TIME_LINE)

\* Mutant of Step1Turn: the name is written to the slot of step 0.
Step1Turn_FillsService(cs, call_sid, speech, gen) ==
    PromptTurn(cs, call_sid, speech, gen, "service", 2, ASK_TIME_LINE)

Step1Turn(cs, call_sid, speech, gen) ==
    PromptTurn(cs, call_sid, speech, gen, "name", 2, ASK_TIME_LINE)

\* Mutant of Step2Turn: the clean-up is done only when a message was sent.
Step2Turn_KeepsUnsent(cs, call_sid, speech, from_number, twilio_number, booking_url, sms) ==
    LET filled == SetItem(cs, call_sid, "time_pref", Or(speech, cs[call_sid].time_pref))
        state == filled[call_sid]
        sent == send_booking(state, from_number, twilio_number, booking_url, sms)
        calls == IF sent.msgs = <<>> THEN <<>> ELSE <<"dispatch">>
    IN Outcome(IF sent.msgs = <<>> THEN filled ELSE Pop(filled, call_sid),
               <<Say(confirm_line(state.time_pref)), Hangup>>,
               <<state>>, 0, sent.msgs, FALSE, sent.log,
               <<"fill">> \o calls \o <<"say", "hangup">>)

\* Mutant of Step2Turn: the clean-up comes first, before the slot is written
\* and the message is sent.
Step2Turn_PopsFirst(cs, call_sid, speech, from_number, twilio_number, booking_url, sms) ==
    LET state == [cs[call_sid] EXCEPT !.time_pref = Or(speech, cs[call_sid].time_pref)]
        sent == send_booking(state, from_number, twilio_number, booking_url, sms)
        calls == IF sent.msgs = <<>> THEN <<>> ELSE <<"dispatch">>
    IN IF sent.escaped
       THEN Outcome(Pop(cs, call_sid), <<>>, <<state>>, 0, sent.msgs, TRUE, sent.log,
                    <<"pop", "fill">> \o calls)
       ELSE Outcome(Pop(cs, call_sid), <<Say(confirm_line(state.time_pref)), Hangup>>,
                    <<state>>, 0, sent.msgs, FALSE, sent.log,
                    <<"pop", "fill">> \o calls \o <<"say", "hangup">>)

\* Step 2: time preference, SMS with the booking link, confirm, hang up, clean up.
Step2Turn(cs, call_sid, speech, from_number, twilio_number, booking_url, sms) ==
    LET filled == SetItem(cs, call_sid, "time_pref", Or(speech, cs[call_sid].time_pref))
        state == filled[call_sid]
        sent == send_booking(state, from_number, twilio_number, booking_url, sms)
        calls == IF sent.msgs = <<>> THEN <<>> ELSE <<"dispatch">>
    IN IF sent.escaped
       THEN Outcome(filled, <<>>, <<state>>, 0, sent.msgs, TRUE, sent.log, <<"fill">> \o calls)
       ELSE Outcome(Pop(filled, call_sid), <<Say(confirm_line(state.time_pref)), Hangup>>,
                    <<state>>, 0, sent.msgs, FALSE, sent.log,
                    <<"fill">> \o calls \o <<"say", "hangup", "pop">>)

\* Fallback: any other step.
FallbackTurn(cs, call_sid) ==
    Outcome(Pop(cs, call_sid), <<Say(WRONG_LINE), Hangup>>, <<cs[call_sid]>>, 0, <<>>, FALSE,
            <<>>, <<"say", "hangup", "pop">>)

\* Mutant of IsFirstHit: the SpeechResult key is not tested.
IsFirstHit_IgnoresField(speech, step, has_field) == ~Truthy(speech) /\ step = 0

\* Mutant of IsFirstHit: the test of the SpeechResult key is inverted.
IsFirstHit_WhenFieldPosted(speech, step, has_field) == ~Truthy(speech) /\ step = 0 /\ has_field

\* The branch condition of the greeting.
IsFirstHit(speech, step, has_field) == ~Truthy(speech) /\ step = 0 /\ ~has_field

\* twilio_voice after `await request.form()`: cs is call_state, rd what the
\* handler reads from the form, gen and sms what the two external calls do.
twilio_voice(cs, rd, twilio_number, booking_url, gen, sms) ==
    IF ~Truthy(rd.call_sid)
    THEN NoCallSidTurn(cs)
    ELSE LET created == get_or_create_call_state(cs, rd.call_sid)
             step == created[rd.call_sid].step
         IN IF IsFirstHit(rd.speech, step, rd.has_field)
            THEN GreetingTurn(created, rd.call_sid)
            ELSE IF step = 0
            THEN Step0Turn(created, rd.call_sid, rd.speech, gen)
            ELSE IF step = 1
            THEN Step1Turn(created, rd.call_sid, rd.speech, gen)
            ELSE IF step = 2
            THEN Step2Turn(created, rd.call_sid, rd.speech, rd.from_number,
                           twilio_number, booking_url, sms)
            ELSE FallbackTurn(created, rd.call_sid)

\* ------------------------------------------------------------------ state

VARIABLES
    call_state,     \* the dict CallSid -> session
    TWILIO_NUMBER,  \* os.getenv("TWILIO_NUMBER"), read at process start
    BOOKING_URL,    \* os.getenv("BOOKING_URL"), read at process start
    last            \* the last webhook turn: what was read and what came out

vars == <<call_state, TWILIO_NUMBER, BOOKING_URL, last>>

NoTurn ==
    [delivery |-> "none",
     rd |-> [call_sid |-> None, from_number |-> None, speech |-> <<>>, has_field |-> FALSE],
     before |-> <<>>,
     resp |-> <<>>, state |-> <<>>, ai_calls |-> 0, msgs |-> <<>>, raised |-> FALSE,
     log |-> <<>>, effects |-> <<>>]

\* The session of the turn's call when the request arrived (<<>>: none stored).
Before(cs, call_sid) == IF call_sid \in DOMAIN cs THEN <<cs[call_sid]>> ELSE <<>>

\* What the handler got to read: the early return on a missing CallSid comes
\* before get_speech.
Seen(rd) ==
    IF Truthy(rd.call_sid) THEN rd ELSE [rd EXCEPT !.speech = <<>>, !.has_field = FALSE]

Turn(delivery, rd, out) ==
    [delivery |-> delivery, rd |-> Seen(rd), before |-> Before(call_state, rd.call_sid),
     resp |-> out.resp, state |-> out.state, ai_calls |-> out.ai_calls, msgs |-> out.msgs,
     raised |-> out.raised, log |-> out.log, effects |-> out.effects]

Init ==
    /\ call_state = [c \in {} |-> NewSession]
    /\ TWILIO_NUMBER \in {None, <<"9">>}
    /\ BOOKING_URL \in {None, <<"u">>}
    /\ last = NoTurn

\* One webhook request handled.
Handle(delivery, rd) ==
    \E gen \in GenOutcomes, sms \in SmsOutcomes :
        LET out == twilio_voice(call_state, rd, TWILIO_NUMBER, BOOKING_URL, gen, sms)
        IN /\ call_state' = out.call_state
           /\ last' = Turn(delivery, rd, out)
           /\ UNCHANGED <<TWILIO_NUMBER, BOOKING_URL>>

\* The telephony layer posts a webhook.
Webhook == \E rd \in Readings : Handle("new", rd)

\* The telephony layer posts the request of the last turn once more.
Redeliver == last.delivery # "none" /\ Handle("duplicate", last.rd)

Next == Webhook \/ Redeliver

Spec == Init /\ [][Next]_vars

\* Two calls in progress at once, their turns in any order. Every request
\* has a CallSid, speech comes under SpeechResult only, and the callers say
\* less.
TwoCalls == {<<"1">>, <<"2">>}
FormsTwoCalls ==
    {f \in Forms(TwoCalls) :
        /\ f.CallSid \in TwoCalls
        /\ f.speechResult = Absent
        /\ f.SpeechResult = Absent \/ Len(f.SpeechResult) < MaxLen}
ReadingsTwoCalls == {Reading(f) : f \in FormsTwoCalls}

WebhookTwoCalls == \E rd \in ReadingsTwoCalls : Handle("new", rd)

NextTwoCalls == WebhookTwoCalls \/ Redeliver

SpecTwoCalls == Init /\ [][NextTwoCalls]_vars

\* ------------------------------------------------------------------ vocabulary of the properties

SlotNames == <<"service", "name", "time_pref">>

\* The slot a turn handled at `step` is to fill.
SlotOf(step) == SlotNames[step + 1]

\* The number of non-null slots of a session.
Filled(session) == Cardinality({i \in 1..3 : session[SlotNames[i]] # None})

SayAndHangUp(resp) ==
    /\ resp # <<>>
    /\ resp[Len(resp)].verb = "Hangup"
    /\ \A i \in 1..Len(resp) : resp[i].verb # "Gather"

PromptAndListen(resp) == \E i \in 1..Len(resp) : resp[i].verb = "Gather"

\* The last turn was handled for a call (it had a CallSid).
Tracked == last.delivery # "none" /\ Truthy(last.rd.call_sid)

\* The session the last turn started from: the stored one, or the fresh one
\* that get_or_create_call_state made.
BeforeSession == IF last.before = <<>> THEN NewSession ELSE last.before[1]
BeforeStep == BeforeSession.step

\* The session dict the last turn ended with.
After == last.state[1]

\* The last turn took a session whose slots so far were all filled by speech
\* and carried non-empty speech itself.
SpokenTurn ==
    /\ Tracked
    /\ Truthy(last.rd.speech)
    /\ BeforeStep \in 0..2
    /\ Filled(BeforeSession) = BeforeStep

\* ------------------------------------------------------------------ C1

\* C1: in every session of the store the number of non-null slots equals
\* step, and a turn changes a session's step only by +1 and only when the turn
\* carries non-empty speech.
C1_SlotsMatchStep ==
    [][ \A c \in DOMAIN call_state' :
          LET old == IF c \in DOMAIN call_state THEN call_state[c].step ELSE 0
              new == call_state'[c].step
          IN /\ Filled(call_state'[c]) = new
             /\ new # old => /\ new = old + 1
                             /\ last'.rd.call_sid = c
                             /\ Truthy(last'.rd.speech) ]_vars

\* ------------------------------------------------------------------ C2

\* C2 as stated: a turn with non-empty speech, taken at step k of a session
\* whose k earlier slots were filled by speech, ends with step k + 1 and with
\* slot k holding the speech and the other slots untouched; from step 2 it is
\* terminal: the booking message goes out with the service and time
\* preference of this call, the response is say-and-hang-up and the session
\* is removed.
C2_ThreeTurnsReachStepThree ==
    SpokenTurn =>
        /\ ~last.raised
        /\ After.step = BeforeStep + 1
        /\ After[SlotOf(BeforeStep)] = last.rd.speech
        /\ \A i \in 1..3 : i # BeforeStep + 1 => After[SlotNames[i]] = BeforeSession[SlotNames[i]]
        /\ BeforeStep < 2 =>
              /\ last.rd.call_sid \in DOMAIN call_state
              /\ call_state[last.rd.call_sid] = After
              /\ PromptAndListen(last.resp)
        /\ BeforeStep = 2 =>
              /\ Len(last.msgs) = 1
              /\ last.msgs[1].service = BeforeSession.service
              /\ last.msgs[1].time_pref = last.rd.speech
              /\ SayAndHangUp(last.resp)
              /\ last.rd.call_sid \notin DOMAIN call_state

\* C2 amended: the same, except that the stored step goes 0, 1, 2 and the
\* terminal turn removes the session with step still 2 (3 is never written),
\* and that the booking message is attempted exactly when From, TWILIO_NUMBER
\* and BOOKING_URL are all set.
C2_ThreeTurnsFillSlotsInOrder ==
    SpokenTurn =>
        /\ ~last.raised
        /\ After.step = (IF BeforeStep < 2 THEN BeforeStep + 1 ELSE 2)
        /\ After[SlotOf(BeforeStep)] = last.rd.speech
        /\ \A i \in 1..3 : i # BeforeStep + 1 => After[SlotNames[i]] = BeforeSession[SlotNames[i]]
        /\ BeforeStep < 2 =>
              /\ last.rd.call_sid \in DOMAIN call_state
              /\ call_state[last.rd.call_sid] = After
              /\ PromptAndListen(last.resp)
              /\ last.msgs = <<>>
        /\ BeforeStep = 2 =>
              /\ (last.msgs # <<>>) = SmsConfigured(last.rd.from_number, TWILIO_NUMBER, BOOKING_URL)
              /\ last.msgs # <<>> =>
                    /\ Len(last.msgs) = 1
                    /\ last.msgs[1].service = BeforeSession.service
                    /\ last.msgs[1].time_pref = last.rd.speech
                    /\ last.msgs[1].to = last.rd.from_number
              /\ SayAndHangUp(last.resp)
              /\ last.rd.call_sid \notin DOMAIN call_state

\* The third spoken turn of a call was handled and its booking message sent.
C2_Witness ==
    /\ SpokenTurn
    /\ BeforeStep = 2
    /\ last.msgs # <<>>
    /\ last.msgs[1].sent
    /\ BeforeSession.service # last.rd.speech

\* ------------------------------------------------------------------ C3

\* C3: a turn with empty speech at step 1 or 2 answers say-and-hang-up without
\* listening again, leaves the step and the step's slot as they were, and
\* removes the session.
C3_SilenceEndsTheCall ==
    (Tracked /\ last.before # <<>> /\ BeforeStep \in {1, 2} /\ ~Truthy(last.rd.speech)) =>
        /\ SayAndHangUp(last.resp)
        /\ After.step = BeforeStep
        /\ After[SlotOf(BeforeStep)] = None
        /\ last.rd.call_sid \notin DOMAIN call_state

\* ------------------------------------------------------------------ C4

\* C4: after a terminal turn (one taken at step 2) or an abandonment turn (one
\* without speech for a session that exists already) the store no longer holds
\* the call id, and the next lookup gives a fresh session.
C4_TeardownAfterTerminalOrSilence ==
    (Tracked /\ last.before # <<>> /\ (BeforeStep = 2 \/ ~Truthy(last.rd.speech))) =>
        /\ last.rd.call_sid \notin DOMAIN call_state
        /\ get_or_create_call_state(call_state, last.rd.call_sid)[last.rd.call_sid] = NewSession

\* ------------------------------------------------------------------ C5

\* A turn moved its session one step on.
Advanced(turn) ==
    /\ turn.state # <<>>
    /\ turn.state[1].step > (IF turn.before = <<>> THEN 0 ELSE turn.before[1].step)

\* C5: a request delivered twice does not advance the step twice and does not
\* fire the booking message twice.
C5_DuplicateDeliveryActsOnce ==
    [][ last'.delivery = "duplicate" =>
          /\ Advanced(last) => ~Advanced(last')
          /\ last.msgs # <<>> => last'.msgs = <<>> ]_vars

\* ------------------------------------------------------------------ C6

\* C6: for a session at step 0 (so greeted already), a turn without speech
\* answers say-and-hang-up, leaves the step at 0 and the slots null, and does
\* not greet again.
C6_SilenceAfterGreetingEndsTheCall ==
    (Tracked /\ last.before = <<NewSession>> /\ ~Truthy(last.rd.speech)) =>
        /\ SayAndHangUp(last.resp)
        /\ After.step = 0
        /\ Filled(After) = 0
        /\ \A i \in 1..Len(last.resp) : last.resp[i].text # GREETING_LINE

\* ------------------------------------------------------------------ C7

\* The last turn was the first one of its call and carried no speech: no
\* SpeechResult key, and nothing under the lower-case key either.
FirstTurnWithoutSpeech ==
    /\ Tracked
    /\ last.before = <<>>
    /\ ~last.rd.has_field
    /\ ~Truthy(last.rd.speech)

\* C7: the first turn of a call id that is not in the store, posted without
\* recognized speech, answers with the greeting prompt-and-listen, leaves the
\* new session at step 0 with the three slots null, and calls neither the
\* reply generator nor the messaging client.
C7_FirstHitGreets ==
    FirstTurnWithoutSpeech =>
        /\ last.resp = <<Gather(GREETING_LINE), Say(SORRY_LINE)>>
        /\ PromptAndListen(last.resp)
        /\ last.rd.call_sid \in DOMAIN call_state
        /\ call_state[last.rd.call_sid] = NewSession
        /\ last.ai_calls = 0
        /\ last.msgs = <<>>
        /\ ~last.raised

C7_Witness == FirstTurnWithoutSpeech /\ last.rd.from_number # None

\* ------------------------------------------------------------------ C8

\* What the state machine decided in a turn: the session as stored afterwards
\* (<<>>: removed), the session dict at the end of the turn, and whether the
\* turn was terminal.
Decision(out, call_sid) ==
    [stored |-> Before(out.call_state, call_sid),
     state |-> out.state,
     terminal |-> SayAndHangUp(out.resp)]

NoGen == [raises |-> FALSE, text |-> <<" ", "g">>]
NoSms == [raises |-> FALSE]

\* The decision of the turn that reads rd, whatever the two external calls do.
DecisionOf(rd, gen, sms) ==
    Decision(twilio_voice(call_state, rd, TWILIO_NUMBER, BOOKING_URL, gen, sms), rd.call_sid)

\* C8 as stated: from the state reached, every turn of a call decides as one
\* fixed turn with the same extracted speech does (so any two turns with equal
\* speech decide alike), whatever From, the rest of the form, the reply
\* generator and the messaging client do.
C8_DecisionDependsOnStateAndSpeech ==
    \A rd \in Readings, gen \in GenOutcomes, sms \in SmsOutcomes :
        Truthy(rd.call_sid) =>
            DecisionOf(rd, gen, sms)
                = DecisionOf([call_sid |-> rd.call_sid, from_number |-> None,
                              speech |-> rd.speech, has_field |-> TRUE], NoGen, NoSms)

\* C8 amended: the decision is a function of the session state, the extracted
\* speech and whether the SpeechResult key was posted.
C8_DecisionDependsOnStateSpeechAndField ==
    \A rd \in Readings, gen \in GenOutcomes, sms \in SmsOutcomes :
        Truthy(rd.call_sid) =>
            DecisionOf(rd, gen, sms)
                = DecisionOf([call_sid |-> rd.call_sid, from_number |-> None,
                              speech |-> rd.speech, has_field |-> rd.has_field], NoGen, NoSms)

\* A terminal turn that carried a From number and no SpeechResult key was
\* handled for a session that holds a service.
C8_Witness ==
    /\ Tracked
    /\ BeforeStep = 2
    /\ last.rd.from_number # None
    /\ ~last.rd.has_field
    /\ BeforeSession.service # None
    /\ last.rd.call_sid \notin DOMAIN call_state

\* ------------------------------------------------------------------ C9

GenRaises == [raises |-> TRUE, text |-> <<>>]

\* C9: when the reply generator fails in a turn at step 0 or 1, the turn
\* still answers, its first utterance is the non-empty fallback line, the
\* session ends the turn as it would had the generator succeeded, and no
\* exception leaves the handler.
C9_GeneratorFailureAbsorbed ==
    /\ (Tracked /\ last.log = <<"OpenAI error">>) =>
          /\ ~last.raised
          /\ BeforeStep \in {0, 1}
          /\ last.resp[1] = Say(FALLBACK_REPLY)
          /\ FALLBACK_REPLY # <<>>
          /\ After.step = BeforeStep + 1
          /\ call_state[last.rd.call_sid] = After
    /\ \A rd \in Readings, gen \in GenOutcomes, sms \in SmsOutcomes :
          LET failed == twilio_voice(call_state, rd, TWILIO_NUMBER, BOOKING_URL, GenRaises, sms)
              worked == twilio_voice(call_state, rd, TWILIO_NUMBER, BOOKING_URL, gen, sms)
          IN /\ ~failed.raised
             /\ failed.call_state = worked.call_state
             /\ failed.state = worked.state
             /\ failed.ai_calls = 1 => failed.resp[1].verb = "Say" /\ failed.resp[1].text # <<>>

\* A turn at step 1 whose generator call failed was handled.
C9_Witness ==
    /\ Tracked
    /\ last.log = <<"OpenAI error">>
    /\ BeforeStep = 1
    /\ Truthy(last.rd.speech)

\* ------------------------------------------------------------------ C10

SmsRaises == [raises |-> TRUE]

\* C10: when the message dispatch fails on the terminal turn, the turn answers
\* exactly as when the dispatch succeeds (say-and-hang-up), the session is
\* removed, and no exception leaves the handler.
C10_DispatchFailureAbsorbed ==
    /\ (Tracked /\ last.log = <<"SMS send error">>) =>
          /\ ~last.raised
          /\ BeforeStep = 2
          /\ last.resp = <<Say(confirm_line(After.time_pref)), Hangup>>
          /\ SayAndHangUp(last.resp)
          /\ last.rd.call_sid \notin DOMAIN call_state
    /\ \A rd \in Readings, gen \in GenOutcomes :
          LET failed == twilio_voice(call_state, rd, TWILIO_NUMBER, BOOKING_URL, gen, SmsRaises)
              worked == twilio_voice(call_state, rd, TWILIO_NUMBER, BOOKING_URL, gen, NoSms)
          IN /\ ~failed.raised
             /\ failed.resp = worked.resp
             /\ failed.call_state = worked.call_state

\* A terminal turn whose message dispatch failed was handled.
C10_Witness ==
    /\ Tracked
    /\ last.log = <<"SMS send error">>
    /\ Truthy(last.rd.speech)
    /\ last.msgs # <<>>
    /\ ~last.msgs[1].sent

\* ------------------------------------------------------------------ C11

\* C11: a booking message is created only by a turn at step 2 that carries
\* speech, and never with a null service or time preference; a turn at step 2
\* with empty speech creates none.
C11_HandoffOnlyOnSpokenTerminalTurn ==
    (Tracked /\ last.msgs # <<>>) =>
        /\ BeforeStep = 2
        /\ Truthy(last.rd.speech)
        /\ last.msgs[1].service # None
        /\ last.msgs[1].time_pref # None

\* ------------------------------------------------------------------ C12

\* The last turn was taken at step 2 of a stored session.
TerminalTurn == Tracked /\ last.before # <<>> /\ BeforeStep = 2

\* The place of an effect in the turn's program order (0: did not happen).
PlaceOf(effect) ==
    IF \E i \in 1..Len(last.effects) : last.effects[i] = effect
    THEN CHOOSE i \in 1..Len(last.effects) : last.effects[i] = effect
    ELSE 0

\* C12: on a terminal turn the slot is filled, then the booking message is
\* attempted, then the response (closing line, hangup) is built, and only
\* then the session is removed: the removal is the last effect of the turn.
C12_TeardownComesLast ==
    TerminalTurn =>
        /\ PlaceOf("fill") = 1
        /\ last.msgs # <<>> => PlaceOf("fill") < PlaceOf("dispatch") /\ PlaceOf("dispatch") < PlaceOf("say")
        /\ PlaceOf("fill") < PlaceOf("say")
        /\ PlaceOf("say") < PlaceOf("hangup")
        /\ PlaceOf("pop") = Len(last.effects)
        /\ PlaceOf("hangup") < PlaceOf("pop")
        /\ last.msgs # <<>> => last.msgs[1].time_pref = After.time_pref
        /\ last.resp = <<Say(confirm_line(After.time_pref)), Hangup>>
        /\ last.rd.call_sid \notin DOMAIN call_state

\* A terminal turn that attempted the booking message was handled.
C12_Witness ==
    /\ TerminalTurn
    /\ last.msgs # <<>>
    /\ last.effects = <<"fill", "dispatch", "say", "hangup", "pop">>

\* ------------------------------------------------------------------ C13

\* C13: a webhook without CallSid (absent or empty) leaves call_state as it
\* is, creates no session, and answers say-and-hang-up without listening.
C13_NoCallSidLeavesStore ==
    /\ (last.delivery # "none" /\ ~Truthy(last.rd.call_sid)) =>
          /\ last.resp = <<Say(NO_CALLSID_LINE), Hangup>>
          /\ SayAndHangUp(last.resp)
          /\ ~PromptAndListen(last.resp)
          /\ last.state = <<>>
    /\ \A rd \in Readings, gen \in GenOutcomes, sms \in SmsOutcomes :
          ~Truthy(rd.call_sid) =>
              twilio_voice(call_state, rd, TWILIO_NUMBER, BOOKING_URL, gen, sms).call_state
                  = call_state

\* A webhook with an empty CallSid was handled while a session was stored.
C13_Witness ==
    /\ last.delivery # "none"
    /\ last.rd.call_sid = <<>>
    /\ DOMAIN call_state # {}

\* ------------------------------------------------------------------ C14

\* C14: with two calls in progress and their turns in any order, a turn
\* handled for one call id leaves the store entry of the other call id as it
\* was (present or not, step and the three slots), and a booking message sent
\* for a call goes to that call's caller with the service stored by that
\* call's own session and the time preference of that call's own turn or
\* session.
C14_CallsDoNotInterfere ==
    [][ LET a == last'.rd.call_sid
        IN /\ \A b \in TwoCalls \ {a} : Before(call_state', b) = Before(call_state, b)
           /\ last'.msgs # <<>> =>
                 /\ a \in DOMAIN call_state
                 /\ last'.msgs[1].service = call_state[a].service
                 /\ last'.msgs[1].time_pref \in {last'.rd.speech, call_state[a].time_pref}
                 /\ last'.msgs[1].to = last'.rd.from_number
                 /\ last'.msgs[1].body =
                        sms_body(call_state[a].service, last'.msgs[1].time_pref, BOOKING_URL) ]_vars

\* A message went out for one call while the other call holds a session that
\* is under way with another service.
C14_Witness ==
    /\ Tracked
    /\ last.msgs # <<>>
    /\ \E b \in DOMAIN call_state :
          /\ b # last.rd.call_sid
          /\ call_state[b].step >= 1
          /\ call_state[b].service # last.msgs[1].service

\* ------------------------------------------------------------------ C15

\* C15: a turn changes a slot of its call's session only when that slot is
\* the one of the step the turn is handled at (step 0: service, step 1: name,
\* step 2: time_pref) and the slot was null until then; it leaves the other
\* two slots, and every slot of every other session, as they were.
C15_SlotsWrittenOnceByTheirTurn ==
    [][ /\ (last'.delivery # "none" /\ Truthy(last'.rd.call_sid)) =>
              LET old == IF last'.rd.call_sid \in DOMAIN call_state
                         THEN call_state[last'.rd.call_sid] ELSE NewSession
                  new == last'.state[1]
              IN \A i \in 1..3 :
                    new[SlotNames[i]] # old[SlotNames[i]] =>
                        /\ i = old.step + 1
                        /\ old[SlotNames[i]] = None
                        /\ new[SlotNames[i]] = last'.rd.speech
        /\ \A c \in DOMAIN call_state \cap DOMAIN call_state' :
              \A i \in 1..3 :
                 call_state'[c][SlotNames[i]] # call_state[c][SlotNames[i]] =>
                     /\ c = last'.rd.call_sid
                     /\ i = call_state[c].step + 1
                     /\ call_state[c][SlotNames[i]] = None ]_vars

\* A turn at step 1 wrote the name of a session whose service had been set
\* to something else, and the service is still what it was.
C15_Witness ==
    /\ Tracked
    /\ last.before # <<>>
    /\ BeforeStep = 1
    /\ BeforeSession.service # None
    /\ After.name # None
    /\ After.name # After.service
    /\ After.service = BeforeSession.service

\* ------------------------------------------------------------------ C16

\* C16: on every store the program reaches and for every call id,
\* get_or_create_call_state gives a store that holds the id; an id that was
\* absent gets the default session (step 0, the three slots null), an id that
\* was present keeps its session as it is; the other entries are unchanged;
\* a second call changes nothing more. Popping an id that is absent gives
\* the store unchanged.
C16_GetOrCreateIdempotent ==
    \A c \in TwoCalls :
        LET once == get_or_create_call_state(call_state, c)
            twice == get_or_create_call_state(once, c)
        IN /\ DOMAIN once = DOMAIN call_state \cup {c}
           /\ c \notin DOMAIN call_state =>
                 once[c] = [step |-> 0, service |-> None, name |-> None, time_pref |-> None]
           /\ c \in DOMAIN call_state => once = call_state
           /\ \A d \in DOMAIN call_state \ {c} : once[d] = call_state[d]
           /\ twice = once
           /\ c \notin DOMAIN call_state =>
                 /\ Pop(call_state, c) = call_state
                 /\ Pop(once, c) = call_state

\* The store holds a session that is under way with a slot set, which the
\* last turn looked up, and another call id is absent.
C16_Witness ==
    /\ Tracked
    /\ last.before # <<>>
    /\ \E c \in DOMAIN call_state :
          /\ c = last.rd.call_sid
          /\ call_state[c].step = 2
          /\ call_state[c].service # None
    /\ \E c \in TwoCalls : c \notin DOMAIN call_state

\* ------------------------------------------------------------------ C17

\* C17: a turn handled at step 2 while the booking URL, the shop's number or
\* the caller's number is missing makes no messages.create call, whatever
\* the call would have done, and ends as every terminal turn does: the
\* closing line, hangup, the session removed, no exception and nothing logged.
C17_MissingConfigSkipsDispatch ==
    (/\ TerminalTurn
     /\ \/ ~Truthy(BOOKING_URL)
        \/ ~Truthy(TWILIO_NUMBER)
        \/ ~Truthy(last.rd.from_number)) =>
        /\ last.msgs = <<>>
        /\ \A i \in 1..Len(last.effects) : last.effects[i] # "dispatch"
        /\ ~last.raised
        /\ last.log = <<>>
        /\ last.resp = <<Say(confirm_line(After.time_pref)), Hangup>>
        /\ SayAndHangUp(last.resp)
        /\ last.rd.call_sid \notin DOMAIN call_state

\* A terminal turn of a caller whose number is known, with the shop's number
\* set and no booking URL.
C17_Witness ==
    /\ TerminalTurn
    /\ BOOKING_URL = None
    /\ Truthy(TWILIO_NUMBER)
    /\ Truthy(last.rd.from_number)
    /\ Truthy(last.rd.speech)
    /\ last.msgs = <<>>

\* ------------------------------------------------------------------ C18

\* The number of ai_reply calls among the effects of the last turn.
Generations == Cardinality({i \in 1..Len(last.effects) : last.effects[i] = "generate"})

\* The last turn met the condition of the greeting: no speech, step 0 and no
\* SpeechResult key.
GreetedTurn ==
    Tracked /\ ~Truthy(last.rd.speech) /\ BeforeStep = 0 /\ ~last.rd.has_field

\* C18: a turn calls ai_reply at most once, also when the call failed and
\* the canned line was used; it calls it once when it is handled at step 0
\* or 1 and is not the greeting, and not at all when it is the greeting, is
\* handled at step 2 or has no CallSid.
C18_OneGenerationPerPromptTurn ==
    /\ last.ai_calls <= 1
    /\ Generations = last.ai_calls
    /\ (Tracked /\ ~GreetedTurn /\ BeforeStep \in {0, 1}) => last.ai_calls = 1
    /\ GreetedTurn => last.ai_calls = 0
    /\ (Tracked /\ BeforeStep = 2) => last.ai_calls = 0
    /\ (last.delivery # "none" /\ ~Truthy(last.rd.call_sid)) => last.ai_calls = 0
    /\ (\E i \in 1..Len(last.log) : last.log[i] = "OpenAI error") =>
          /\ last.ai_calls = 1
          /\ last.resp[1] = Say(FALLBACK_REPLY)

\* A turn at step 1 whose generation failed.
C18_Witness ==
    /\ Tracked
    /\ last.before # <<>>
    /\ BeforeStep = 1
    /\ last.log = <<"OpenAI error">>
    /\ last.ai_calls = 1
    /\ last.resp[1] = Say(FALLBACK_REPLY)

\* ------------------------------------------------------------------ C19

\* C19: with two calls in progress and their turns in any order, every
\* session in the store has step 0, 1 or 2, the last turn did not take the
\* final "something went wrong" branch, and no request that may come next
\* takes it.
C19_StepInRangeNoFallback ==
    /\ \A c \in DOMAIN call_state : call_state[c].step \in {0, 1, 2}
    /\ \A i \in 1..Len(last.resp) : last.resp[i].text # WRONG_LINE
    /\ last.state # <<>> => After.step \in {0, 1, 2}
    /\ \A rd \in ReadingsTwoCalls, gen \in GenOutcomes, sms \in SmsOutcomes :
          LET out == twilio_voice(call_state, rd, TWILIO_NUMBER, BOOKING_URL, gen, sms)
          IN /\ out.resp # FallbackTurn(get_or_create_call_state(call_state, rd.call_sid),
                                         rd.call_sid).resp
             /\ \A c \in DOMAIN out.call_state : out.call_state[c].step \in {0, 1, 2}

\* Both calls hold a session, one at step 1 and one at the last step.
C19_Witness ==
    /\ DOMAIN call_state = TwoCalls
    /\ \E c \in TwoCalls : call_state[c].step = 2
    /\ \E c \in TwoCalls : call_state[c].step = 1

\* ------------------------------------------------------------------ C20

\* The requests of a call that carry the SpeechResult key, and those that
\* do not.
FieldTurns(c) == {rd \in Readings : rd.call_sid = c /\ rd.has_field}
FieldlessTurns(c) == {rd \in Readings : rd.call_sid = c /\ ~rd.has_field}

\* The store after the turn that reads rd.
StoreAfter(cs, rd, gen, sms) ==
    twilio_voice(cs, rd, TWILIO_NUMBER, BOOKING_URL, gen, sms).call_state

\* The call is at its start: no request handled yet, or the last turn was
\* its greeting.
AtStart == last.delivery = "none" \/ GreetedTurn

\* From the start of a call, with no session or a fresh one in the store,
\* three turns that carry the SpeechResult key, whatever its value and
\* whatever the two external calls do, take the session to step 1, to step 2
\* and out of the store; and the last turn, when it carried the key, moved
\* its session one step on or, from step 2, removed it.
ThreeFieldTurnsRemove ==
    /\ \A c \in OneCall :
          (AtStart /\ (c \in DOMAIN call_state => call_state[c] = NewSession)) =>
            \A rd1 \in FieldTurns(c), gen1 \in GenOutcomes :
               LET s1 == StoreAfter(call_state, rd1, gen1, NoSms)
               IN /\ c \in DOMAIN s1 /\ s1[c].step = 1
                  /\ \A rd2 \in FieldTurns(c), gen2 \in GenOutcomes :
                        LET s2 == StoreAfter(s1, rd2, gen2, NoSms)
                        IN /\ c \in DOMAIN s2 /\ s2[c].step = 2
                           /\ \A rd3 \in FieldTurns(c), sms \in SmsOutcomes :
                                 c \notin DOMAIN StoreAfter(s2, rd3, NoGen, sms)
    /\ (Tracked /\ last.rd.has_field) =>
          IF BeforeStep = 2
          THEN last.rd.call_sid \notin DOMAIN call_state
          ELSE /\ last.rd.call_sid \in DOMAIN call_state
               /\ call_state[last.rd.call_sid].step = BeforeStep + 1

\* The turn that reads rd for a fresh or absent session of c only greets:
\* the greeting and the reprompt line, the session at step 0 with no slot set.
OnlyGreets(c, rd) ==
    \A gen \in GenOutcomes, sms \in SmsOutcomes :
        LET out == twilio_voice(call_state, rd, TWILIO_NUMBER, BOOKING_URL, gen, sms)
        IN /\ out.resp = <<Gather(GREETING_LINE), Say(SORRY_LINE)>>
           /\ c \in DOMAIN out.call_state
           /\ out.call_state[c] = NewSession

\* C20 as stated: three turns that carry the SpeechResult key take a fresh
\* session out of the store, and a turn without the SpeechResult key at
\* step 0 only repeats the greeting and leaves the session at step 0.
C20_FieldlessTurnsOnlyGreet ==
    /\ ThreeFieldTurnsRemove
    /\ \A c \in OneCall :
          (c \in DOMAIN call_state => call_state[c].step = 0) =>
             \A rd \in FieldlessTurns(c) : OnlyGreets(c, rd)

\* C20, amended: three turns that carry the SpeechResult key take a fresh
\* session out of the store, and a turn at step 0 that has neither the
\* SpeechResult key nor speech under the speechResult key only repeats the
\* greeting and leaves the session at step 0; the last turn, when it was
\* such a turn, did so.
C20_SpeechlessFieldlessTurnsOnlyGreet ==
    /\ ThreeFieldTurnsRemove
    /\ \A c \in OneCall :
          (c \in DOMAIN call_state => call_state[c].step = 0) =>
             \A rd \in FieldlessTurns(c) : ~Truthy(rd.speech) => OnlyGreets(c, rd)
    /\ (Tracked /\ ~last.rd.has_field /\ ~Truthy(last.rd.speech) /\ BeforeStep = 0) =>
          /\ last.resp = <<Gather(GREETING_LINE), Say(SORRY_LINE)>>
          /\ last.rd.call_sid \in DOMAIN call_state
          /\ call_state[last.rd.call_sid] = NewSession

\* The third of three turns that carried an empty SpeechResult: the session
\* is gone with no slot ever set.
C20_Witness ==
    /\ TerminalTurn
    /\ last.rd.has_field
    /\ ~Truthy(last.rd.speech)
    /\ Filled(After) = 0
    /\ last.rd.call_sid \notin DOMAIN call_state

====
